---- MODULE Spec2Model ----
(***************************************************************************)
(* Model of Projects/ImageGenerator.py (class LocalImageGenerator) and of  *)
(* its driver Projects/MyImage.py.                                         *)
(*                                                                         *)
(* Strings are sequences of one-character strings, so that lower(),        *)
(* strip(), the "in" substring test and the hex slices color[1:3] are      *)
(* computed the way the code computes them.                                *)
(***************************************************************************)
EXTENDS Integers, Sequences, FiniteSets, TLC

\* ------------------------------------------------------------------ bounds
\* Largest number of words in a prompt handed to detect_theme.
MaxWords == 2
\* Largest denominator of a blend ratio k/n.
MaxDen == 4
\* Largest image width and height handed to generate_gradient_background.
MaxDim == 3
\* Largest number of prompts in one batch_generate call.
MaxPrompts == 3
\* Last clock second reached during a run (the clock starts at second 0).
MaxClock == 1

\* ------------------------------------------------------- character strings
UpperChars == <<"A","B","C","D","E","F","G","H","I","J","K","L","M",
                "N","O","P","Q","R","S","T","U","V","W","X","Y","Z">>
LowerChars == <<"a","b","c","d","e","f","g","h","i","j","k","l","m",
                "n","o","p","q","r","s","t","u","v","w","x","y","z">>

\* str.lower() on one character.
LowerChar(c) ==
    IF \E i \in 1..26 : UpperChars[i] = c
    THEN LowerChars[CHOOSE i \in 1..26 : UpperChars[i] = c]
    ELSE c

\* str.upper() on one character.
UpperChar(c) ==
    IF \E i \in 1..26 : LowerChars[i] = c
    THEN UpperChars[CHOOSE i \in 1..26 : LowerChars[i] = c]
    ELSE c

\* prompt.lower()
StrLower(s) == [i \in 1..Len(s) |-> LowerChar(s[i])]

\* str.upper()
StrUpper(s) == [i \in 1..Len(s) |-> UpperChar(s[i])]

\* The characters str.strip() and str.split() treat as whitespace.
Whitespace == {" ", "\t", "\n"}

\* keyword in prompt_lower: the substring test.
Contains(s, k) ==
    \E i \in 1..(Len(s) - Len(k) + 1) : SubSeq(s, i, i + Len(k) - 1) = k

\* ------------------------------------------------------------ the catalog
\* Iteration order of the dicts color_themes and theme_keywords
\* (insertion order).
ThemeOrder == <<"nature", "ocean", "sunset", "space", "forest",
                "city", "fire", "ice", "magic", "retro">>

Themes == {ThemeOrder[i] : i \in 1..Len(ThemeOrder)}

color_themes ==
    [ nature |-> << <<"#","2","2","8","B","2","2">>, <<"#","3","2","C","D","3","2">>, <<"#","9","0","E","E","9","0">>, <<"#","0","0","6","4","0","0">>, <<"#","8","F","B","C","8","F">> >>,
      ocean |-> << <<"#","0","0","6","9","9","4">>, <<"#","4","6","8","2","B","4">>, <<"#","8","7","C","E","E","B">>, <<"#","1","E","9","0","F","F">>, <<"#","0","0","C","E","D","1">> >>,
      sunset |-> << <<"#","F","F","6","3","4","7">>, <<"#","F","F","8","C","0","0">>, <<"#","F","F","D","7","0","0">>, <<"#","F","F","6","9","B","4">>, <<"#","D","C","1","4","3","C">> >>,
      space |-> << <<"#","1","9","1","9","7","0">>, <<"#","4","B","0","0","8","2">>, <<"#","8","B","0","0","8","B">>, <<"#","9","4","0","0","D","3">>, <<"#","0","0","0","0","8","0">> >>,
      forest |-> << <<"#","2","2","8","B","2","2">>, <<"#","0","0","6","4","0","0">>, <<"#","8","B","4","5","1","3">>, <<"#","2","E","8","B","5","7">>, <<"#","5","5","6","B","2","F">> >>,
      city |-> << <<"#","6","9","6","9","6","9">>, <<"#","2","F","4","F","4","F">>, <<"#","7","0","8","0","9","0">>, <<"#","7","7","8","8","9","9">>, <<"#","A","9","A","9","A","9">> >>,
      fire |-> << <<"#","F","F","4","5","0","0">>, <<"#","F","F","6","3","4","7">>, <<"#","F","F","8","C","0","0">>, <<"#","F","F","D","7","0","0">>, <<"#","D","C","1","4","3","C">> >>,
      ice |-> << <<"#","B","0","E","0","E","6">>, <<"#","8","7","C","E","E","B">>, <<"#","A","D","D","8","E","6">>, <<"#","E","0","F","F","F","F">>, <<"#","F","0","F","8","F","F">> >>,
      magic |-> << <<"#","9","3","7","0","D","B">>, <<"#","B","A","5","5","D","3">>, <<"#","D","A","7","0","D","6">>, <<"#","E","E","8","2","E","E">>, <<"#","D","D","A","0","D","D">> >>,
      retro |-> << <<"#","F","F","1","4","9","3">>, <<"#","0","0","F","F","F","F">>, <<"#","F","F","F","F","0","0">>, <<"#","F","F","6","9","B","4">>, <<"#","0","0","F","F","0","0">> >> ]

theme_keywords ==
    [ nature |-> << <<"t","r","e","e">>, <<"g","r","a","s","s">>, <<"p","l","a","n","t">>, <<"g","a","r","d","e","n">>, <<"n","a","t","u","r","e">>, <<"l","e","a","f">> >>,
      ocean |-> << <<"o","c","e","a","n">>, <<"s","e","a">>, <<"w","a","t","e","r">>, <<"w","a","v","e">>, <<"b","e","a","c","h">>, <<"b","l","u","e">> >>,
      sunset |-> << <<"s","u","n","s","e","t">>, <<"d","a","w","n">>, <<"o","r","a","n","g","e">>, <<"w","a","r","m">>, <<"g","o","l","d","e","n">> >>,
      space |-> << <<"s","p","a","c","e">>, <<"s","t","a","r">>, <<"g","a","l","a","x","y">>, <<"c","o","s","m","i","c">>, <<"u","n","i","v","e","r","s","e">>, <<"n","e","b","u","l","a">> >>,
      forest |-> << <<"f","o","r","e","s","t">>, <<"w","o","o","d">>, <<"j","u","n","g","l","e">>, <<"t","r","e","e">>, <<"g","r","e","e","n">> >>,
      city |-> << <<"c","i","t","y">>, <<"u","r","b","a","n">>, <<"b","u","i","l","d","i","n","g">>, <<"s","t","r","e","e","t">>, <<"s","k","y","s","c","r","a","p","e","r">> >>,
      fire |-> << <<"f","i","r","e">>, <<"f","l","a","m","e">>, <<"h","o","t">>, <<"r","e","d">>, <<"b","u","r","n","i","n","g">> >>,
      ice |-> << <<"i","c","e">>, <<"c","o","l","d">>, <<"f","r","o","z","e","n">>, <<"w","i","n","t","e","r">>, <<"s","n","o","w">> >>,
      magic |-> << <<"m","a","g","i","c">>, <<"m","y","s","t","i","c","a","l">>, <<"f","a","n","t","a","s","y">>, <<"e","n","c","h","a","n","t","e","d">>, <<"w","i","z","a","r","d">> >>,
      retro |-> << <<"r","e","t","r","o">>, <<"n","e","o","n">>, <<"c","y","b","e","r","p","u","n","k">>, <<"8","0","s">>, <<"s","y","n","t","h","w","a","v","e">> >> ]

\* ------------------------------------------------------------ detect_theme
\* score = sum(1 for keyword in keywords if keyword in prompt_lower)
RECURSIVE CountMatches(_, _)
CountMatches(keywords, prompt_lower) ==
    IF keywords = <<>> THEN 0
    ELSE (IF Contains(prompt_lower, Head(keywords)) THEN 1 ELSE 0)
         + CountMatches(Tail(keywords), prompt_lower)

\* theme_scores as the list of its items in insertion order: the themes
\* with score > 0, in the order of theme_keywords.
RECURSIVE ThemeScores(_, _)
ThemeScores(order, prompt_lower) ==
    IF order = <<>> THEN <<>>
    ELSE LET theme == Head(order)
             score == CountMatches(theme_keywords[theme], prompt_lower)
             rest  == ThemeScores(Tail(order), prompt_lower)
         IN IF score > 0 THEN <<[theme |-> theme, score |-> score]>> \o rest
            ELSE rest

\* The comparison max() makes between the best item so far and the next.
MaxReplacesLast(best, item) == item.score >= best.score
MaxReplaces(best, item) == item.score > best.score

\* max(items, key=lambda x: x[1]): the first item with the largest key.
RECURSIVE PyMax(_, _)
PyMax(best, items) ==
    IF items = <<>> THEN best
    ELSE PyMax(IF MaxReplaces(best, Head(items)) THEN Head(items) ELSE best,
               Tail(items))

\* detect_theme(prompt): the set of themes the call can return. With a
\* match it is the one theme max() selects; without one it is whatever
\* random.choice(list(self.color_themes.keys())) draws.
detect_theme(prompt) ==
    LET prompt_lower == StrLower(prompt)
        theme_scores == ThemeScores(ThemeOrder, prompt_lower)
    IN IF theme_scores # <<>>
       THEN {PyMax(Head(theme_scores), Tail(theme_scores)).theme}
       ELSE Themes

\* ------------------------------------------------------------ blend_colors
HexDigits == <<"0","1","2","3","4","5","6","7","8","9",
               "A","B","C","D","E","F">>

\* int(c, 16) for one hex digit (upper or lower case).
HexVal(c) == (CHOOSE i \in 1..16 : HexDigits[i] = UpperChar(c)) - 1

\* int(color[a:a+2], 16) with a the 0-based slice start (1, 3 or 5).
HexByte(color, a) == 16 * HexVal(color[a + 1]) + HexVal(color[a + 2])

\* r, g, b = int(color[1:3], 16), int(color[3:5], 16), int(color[5:7], 16)
HexToRGB(color) == <<HexByte(color, 1), HexByte(color, 3), HexByte(color, 5)>>

\* int(): truncation toward zero of the quotient n / d, d > 0.
IntTrunc(n, d) == IF n >= 0 THEN n \div d ELSE -((-n) \div d)

\* A ratio is num/den, or the square root of num/den when root is TRUE
\* (math.sqrt(...) / math.sqrt(...) of the radial gradient). Arithmetic on
\* it is exact: the rounding of the floats is not modelled.
Ratio(num, den) == [num |-> num, den |-> den, root |-> FALSE]
RootRatio(num, den) == [num |-> num, den |-> den, root |-> TRUE]

\* floor(d * sqrt(num / den)) for d >= 0.
FloorRoot(d, num, den) ==
    CHOOSE k \in 0..d : k * k * den <= d * d * num
                        /\ (k + 1) * (k + 1) * den > d * d * num

\* ceil(d * sqrt(num / den)) for d >= 0.
CeilRoot(d, num, den) ==
    CHOOSE k \in 0..d : k * k * den >= d * d * num
                        /\ (k = 0 \/ (k - 1) * (k - 1) * den < d * d * num)

\* int(c1 + (c2 - c1) * ratio) for one channel.
BlendChannelSwapped(c1, c2, ratio) ==
    IntTrunc(c2 * ratio.den + (c2 - c1) * ratio.num, ratio.den)
BlendChannel(c1, c2, ratio) ==
    IF ~ratio.root
    THEN IntTrunc(c1 * ratio.den + (c2 - c1) * ratio.num, ratio.den)
    ELSE IF c2 >= c1
         THEN c1 + FloorRoot(c2 - c1, ratio.num, ratio.den)
         ELSE c1 - CeilRoot(c1 - c2, ratio.num, ratio.den)

\* blend_colors(color1, color2, ratio) -> (r, g, b)
blend_colors(color1, color2, ratio) ==
    LET rgb1 == HexToRGB(color1)
        rgb2 == HexToRGB(color2)
    IN [ch \in 1..3 |-> BlendChannel(rgb1[ch], rgb2[ch], ratio)]

\* -------------------------------------------- generate_gradient_background
GradientTypes == {"horizontal", "vertical", "diagonal", "radial"}

\* The pixels of a width x height image, (x, y) with x in range(width).
Pixels(width, height) == (0..(width - 1)) \X (0..(height - 1))

\* The ratio the loop body computes at (x, y); a ratio with denominator 0
\* stands for the float division that raises ZeroDivisionError (see
\* DivisionRaises). center_x, center_y = width // 2, height // 2;
\* distance / max_distance compares as the square root of the quotient of
\* the squares, and min(..., 1.0) caps it.
PixelRatio(gradient_type, x, y, width, height) ==
    CASE gradient_type = "horizontal" -> Ratio(x, width)
      [] gradient_type = "vertical" -> Ratio(y, height)
      [] gradient_type = "diagonal" -> Ratio(x + y, width + height)
      [] gradient_type = "radial" ->
           LET center_x == width \div 2
               center_y == height \div 2
               max_sq == center_x * center_x + center_y * center_y
               dist_sq == (x - center_x) * (x - center_x)
                          + (y - center_y) * (y - center_y)
           IN IF max_sq = 0 THEN RootRatio(dist_sq, max_sq)
              ELSE IF dist_sq >= max_sq THEN Ratio(1, 1)
              ELSE RootRatio(dist_sq, max_sq)

\* x / 0 and x / 0.0 raise ZeroDivisionError.
DivisionRaises(ratio) == ratio.den = 0

\* The loop indices of each gradient kind: columns, rows, or pixels.
LoopIndices(gradient_type, width, height) ==
    CASE gradient_type = "horizontal" -> {<<x, 0>> : x \in 0..(width - 1)}
      [] gradient_type = "vertical" -> {<<0, y>> : y \in 0..(height - 1)}
      [] OTHER -> Pixels(width, height)

\* generate_gradient_background(width, height, colors) with the gradient
\* kind random.choice drew: the ratios computed on the way and the image
\* returned, or the exception raised by the first failing loop body.
generate_gradient_background(width, height, colors, gradient_type) ==
    LET indices == LoopIndices(gradient_type, width, height)
        ratios == [p \in indices |->
                      PixelRatio(gradient_type, p[1], p[2], width, height)]
        failing == {p \in indices : DivisionRaises(ratios[p])}
    IN IF failing # {}
       THEN [status |-> "raised", exception |-> "ZeroDivisionError",
             ratios |-> [p \in {} |-> 0], image |-> <<>>]
       ELSE [status |-> "returned", exception |-> "none",
             ratios |-> ratios,
             image |-> [mode |-> "RGB", size |-> <<width, height>>,
                        pixels |->
                          [p \in Pixels(width, height) |->
                             blend_colors(colors[1], colors[2],
                               PixelRatio(gradient_type, p[1], p[2],
                                          width, height))]]]

\* ---------------------------------------------------- add_geometric_patterns
PatternTypes == {"circles", "rectangles", "triangles", "lines"}

\* random.randint(5, 15) and random.randint(50, 150)
MinShapes == 5
MaxShapes == 15
MinAlpha == 50
MaxAlpha == 150

\* The alphas the model lets random.randint(50, 150) return: both ends of
\* the range and its middle.
AlphaSamples == {MinAlpha, (MinAlpha + MaxAlpha) \div 2, MaxAlpha}

\* Image.new('RGB', (width, height), (r, g, b)): an opaque image on which no
\* shape has been drawn yet. Of the shapes composited onto an image the
\* model keeps their number.
NewImage(mode, background) ==
    [mode |-> mode, background |-> background, shapes |-> 0]

\* What the body of one loop iteration draws on the fresh transparent
\* overlay: one ellipse for 'circles', one rectangle for 'rectangles', and
\* nothing for the two kinds no branch handles.
OverlayShapes(pattern_type, color, alpha) ==
    CASE pattern_type = "circles" ->
           <<[kind |-> "ellipse", fill |-> HexToRGB(color) \o <<alpha>>]>>
      [] pattern_type = "rectangles" ->
           <<[kind |-> "rectangle", fill |-> HexToRGB(color) \o <<alpha>>]>>
      [] OTHER -> <<>>

\* Image.alpha_composite(image.convert('RGBA'), overlay).convert('RGB'):
\* the overlay's shapes are blended over what the image already shows.
CompositeOver(image, overlay_shapes) ==
    [image EXCEPT !.mode = "RGB",
                  !.shapes = image.shapes + Len(overlay_shapes)]

\* Whether every shape on an overlay has a color of the pool and an alpha
\* within the range randint draws from.
ShapesFromPool(overlay_shapes, colors) ==
    \A k \in 1..Len(overlay_shapes) :
       /\ \E c \in 1..Len(colors) :
            SubSeq(overlay_shapes[k].fill, 1, 3) = HexToRGB(colors[c])
       /\ overlay_shapes[k].fill[4] \in MinAlpha..MaxAlpha

\* -------------------------------------------------------------- generate_image
\* str.strip(): leading and trailing whitespace removed.
RECURSIVE LStrip(_)
LStrip(s) ==
    IF s # <<>> /\ Head(s) \in Whitespace THEN LStrip(Tail(s)) ELSE s

RECURSIVE RStrip(_)
RStrip(s) ==
    IF s # <<>> /\ s[Len(s)] \in Whitespace
    THEN RStrip(SubSeq(s, 1, Len(s) - 1))
    ELSE s

Strip(s) == RStrip(LStrip(s))

\* not prompt or not prompt.strip()
IsEmptyPromptNoStrip(prompt) == prompt = <<>>
IsEmptyPrompt(prompt) == prompt = <<>> \/ Strip(prompt) = <<>>

\* The value None, and the file path
\* os.path.join(output_dir, f"local_generated_{style}_{timestamp}.png")
\* with the timestamp in whole seconds.
None == <<>>
FilePath(style, timestamp) == <<"local_generated", style, timestamp>>

\* if style == 'auto': style = random.choice([...]). The styles the call
\* goes on with.
ConcreteStyles == {"gradient", "abstract", "geometric"}
ResolveStyle(style) == IF style = "auto" THEN ConcreteStyles ELSE {style}

\* A call of a stage: its name, the image it is given (an image is the
\* sequence of the stages that produced it), and its color arguments.
StageCall(stage, image, background, colors) ==
    [stage |-> stage, image |-> image, background |-> background,
     colors |-> colors]

\* The if/elif chain on style: the call that makes the base image, or no
\* call at all for a style none of the three branches matches (the name
\* image stays unbound).
GeneratorCallWithElse(style, colors) ==
    CASE style = "gradient" ->
           <<StageCall("generate_gradient_background", <<>>, <<>>,
                       SubSeq(colors, 1, 2))>>
      [] style = "abstract" ->
           <<StageCall("create_abstract_art", <<>>, <<>>, colors)>>
      [] OTHER ->
           <<StageCall("add_geometric_patterns", <<"Image.new">>,
                       colors[1], Tail(colors))>>
GeneratorCall(style, colors) ==
    CASE style = "gradient" ->
           <<StageCall("generate_gradient_background", <<>>, <<>>,
                       SubSeq(colors, 1, 2))>>
      [] style = "abstract" ->
           <<StageCall("create_abstract_art", <<>>, <<>>, colors)>>
      [] style = "geometric" ->
           <<StageCall("add_geometric_patterns", <<"Image.new">>,
                       colors[1], Tail(colors))>>
      [] OTHER -> <<>>

\* The statements of the try body after the base image, in program order.
PostStagesEffectFirst == <<"apply_artistic_effects", "add_text_overlay">>
PostStages == <<"add_text_overlay", "apply_artistic_effects">>

\* The places where the try body can raise: a stage or the save.
FailPoints == {"none", "generator", "add_text_overlay",
               "apply_artistic_effects", "save"}

\* image = self.<stage>(image, ...) for each stage in turn; stops at the
\* stage that raises.
RECURSIVE RunStages(_, _, _, _)
RunStages(stages, image, calls, fail) ==
    IF stages = <<>>
    THEN [image |-> image, calls |-> calls, exception |-> "none",
          raised_in |-> "none"]
    ELSE LET call == StageCall(Head(stages), image, <<>>, <<>>)
         IN IF fail = Head(stages)
            THEN [image |-> image, calls |-> Append(calls, call),
                  exception |-> "Exception", raised_in |-> Head(stages)]
            ELSE RunStages(Tail(stages), Append(image, Head(stages)),
                           Append(calls, call), fail)

\* The try body: what it returns, the stage calls made, the file
\* written, the exception raised inside it ("none" if none) and the call
\* that raised it ("image" for the read of the unbound name). fail is the
\* place that raises in this run, now the clock second at the save.
TryBody(colors, style, fail, now) ==
    LET gen == GeneratorCall(style, colors)
        fresh == [result |-> None, calls |-> gen, saved |-> {},
                  image |-> <<>>, exception |-> "none", raised_in |-> "none"]
    IN IF gen = <<>>
       THEN [fresh EXCEPT !.exception = "UnboundLocalError",
                          !.raised_in = "image"]
       ELSE IF fail = "generator"
       THEN [fresh EXCEPT !.exception = "Exception",
                          !.raised_in = gen[1].stage]
       ELSE LET post == RunStages(PostStages, <<gen[1].stage>>, gen, fail)
                filepath == FilePath(style, now)
                save == StageCall("save", post.image, <<>>, <<>>)
            IN IF post.exception # "none"
               THEN [fresh EXCEPT !.calls = post.calls,
                                  !.exception = post.exception,
                                  !.raised_in = post.raised_in]
               ELSE IF fail = "save"
               THEN [fresh EXCEPT !.calls = Append(post.calls, save),
                                  !.exception = "OSError",
                                  !.raised_in = "save"]
               ELSE [result |-> filepath,
                     calls |-> Append(post.calls, save),
                     saved |-> {filepath}, image |-> post.image,
                     exception |-> "none", raised_in |-> "none"]

\* except Exception as e: every exception the stages raise derives from
\* Exception and is caught.
CaughtOnlyOSError(exception) == exception = "OSError"
Caught(exception) ==
    exception \in {"Exception", "OSError", "UnboundLocalError"}

\* One run of generate_image past the empty-prompt check, with the theme
\* detect_theme returned and the style the call resolved.
RunPipeline(theme, style, fail, now) ==
    LET body == TryBody(color_themes[theme], style, fail, now)
    IN [result |-> IF body.exception = "none" THEN body.result ELSE None,
        theme |-> theme, style |-> style, calls |-> body.calls,
        saved |-> body.saved, image |-> body.image,
        exception |-> body.exception, raised_in |-> body.raised_in,
        propagated |-> IF body.exception = "none" \/ Caught(body.exception)
                       THEN "none" ELSE body.exception]

\* generate_image(prompt, style=style) called at clock second now: the set
\* of outcomes the random draws and the failures of the stages allow.
generate_image(prompt, style, now) ==
    IF IsEmptyPrompt(prompt)
    THEN {[result |-> None, theme |-> "none", style |-> "none",
           calls |-> <<>>, saved |-> {}, image |-> <<>>,
           exception |-> "none", raised_in |-> "none",
           propagated |-> "none"]}
    ELSE {RunPipeline(theme, resolved, fail, now) :
            theme \in detect_theme(Strip(prompt)),
            resolved \in ResolveStyle(style),
            fail \in FailPoints}

\* ------------------------------------------------------------ batch_generate
\* successful = sum(1 for r in results if r is not None)
SuccessfulCountsAll(results) == Len(results)
Successful(results) ==
    Cardinality({i \in 1..Len(results) : results[i] # None})

VARIABLES
    prompts,  \* batch_generate: the prompts argument
    kwargs,   \* batch_generate: the style keyword passed on to generate_image
    results,  \* batch_generate: the results list
    pc,       \* batch_generate: "idle", "loop", "done" or "aborted"
    tally,    \* batch_generate: the printed <<successful, total>>
    genlog,   \* the generate_image calls made: prompt given, result returned
    clock,    \* the current second of datetime.now()
    files,    \* the file paths written to the output directory
    call,     \* a generate_image call: arguments and outcome
    geo,    \* an add_geometric_patterns call: arguments, loop position, image
    gr,     \* a generate_gradient_background call: arguments and outcome
    bl,     \* a blend_colors call: color1, color2, ratio, result
    dt      \* a detect_theme call: its prompt, how the prompt was built, its result

batchVars == <<prompts, kwargs, results, pc, tally, genlog, clock, files>>

vars == <<dt, bl, gr, geo, call, batchVars>>

\* ------------------------------------------------- prompts for detect_theme
RECURSIVE JoinWords(_)
JoinWords(ws) ==
    IF ws = <<>> THEN <<>>
    ELSE IF Len(ws) = 1 THEN ws[1]
    ELSE ws[1] \o <<" ">> \o JoinWords(Tail(ws))

\* Title case of one word, as a user would type it.
Capitalize(w) == IF w = <<>> THEN w ELSE <<UpperChar(w[1])>> \o Tail(w)

CaseModes == {"lower", "upper", "title"}

ApplyCase(mode, ws) ==
    CASE mode = "lower" -> ws
      [] mode = "upper" -> [i \in 1..Len(ws) |-> StrUpper(ws[i])]
      [] mode = "title" -> [i \in 1..Len(ws) |-> Capitalize(ws[i])]

KeywordSet(theme) ==
    {theme_keywords[theme][i] : i \in 1..Len(theme_keywords[theme])}

\* Words for prompts that mix themes, hit none, or embed a keyword.
MixWords ==
    { <<"t","r","e","e">>, <<"w","o","o","d">>, <<"s","t","r","e","e","t">>,
      <<"c","i","t","y">>, <<"o","c","e","a","n">>, <<"s","u","n","s","e","t">>,
      <<"s","y","n","t","h","w","a","v","e">>, <<"r","e","t","r","o">>,
      <<"p","l","a","i","n">>, <<"m","u","s","h","r","o","o","m","s">> }

WordSeqs(words) == UNION {[1..n -> words] : n \in 1..MaxWords}

\* The state of the calls a specification does not exercise.
NoDetect == [prompt |-> <<>>, from |-> "mixed", words |-> <<>>, theme |-> "none"]
NoGradient == [width |-> 0, height |-> 0, colors |-> <<>>,
               gradient_type |-> "none", out |-> [status |-> "ready"]]
NoGeometric == [pc |-> "idle", colors |-> <<>>, pattern_type |-> "none",
                num_shapes |-> 0, i |-> 0, image |-> NewImage("RGB", <<>>),
                from_pool |-> TRUE]
NoCall == [prompt |-> <<>>, style |-> "auto", out |-> [status |-> "idle"]]
BatchIdle ==
    /\ prompts = <<>>
    /\ kwargs = [style |-> "auto"]
    /\ results = <<>>
    /\ pc = "idle"
    /\ tally = <<0, 0>>
    /\ genlog = <<>>
    /\ clock = 0
    /\ files = {}
NoBlend == [color1 |-> <<>>, color2 |-> <<>>, ratio |-> Ratio(0, 1), out |-> <<>>]

InitTheme ==
    /\ BatchIdle
    /\ call = NoCall
    /\ geo = NoGeometric
    /\ bl = NoBlend
    /\ gr = NoGradient
    /\ \E from \in Themes \cup {"mixed"}, mode \in CaseModes :
       \E ws \in WordSeqs(IF from = "mixed" THEN MixWords ELSE KeywordSet(from)) :
         dt = [prompt |-> JoinWords(ApplyCase(mode, ws)), from |-> from,
               words |-> ws, theme |-> "none"]

\* One call of detect_theme on the prompt.
DetectThemeCall ==
    /\ dt.theme = "none"
    /\ \E theme \in detect_theme(dt.prompt) :
         dt' = [dt EXCEPT !.theme = theme]
    /\ UNCHANGED <<bl, gr, geo, call, batchVars>>

NextTheme == DetectThemeCall

SpecTheme == InitTheme /\ [][NextTheme]_vars

\* ------------------------------------------------ blend_colors on its own
Black == <<"#","0","0","0","0","0","0">>
White == <<"#","f","f","f","f","f","f">>

\* The colors blend_colors is called with: colors[:2] of every theme, and
\* the two extreme colors.
BlendInputs ==
    {color_themes[t][i] : t \in Themes, i \in 1..2} \cup {Black, White}

InitBlend ==
    /\ BatchIdle
    /\ call = NoCall
    /\ geo = NoGeometric
    /\ dt = NoDetect
    /\ gr = NoGradient
    /\ \E color1 \in BlendInputs, color2 \in BlendInputs, den \in 1..MaxDen :
         \E num \in 0..den :
           bl = [color1 |-> color1, color2 |-> color2,
                 ratio |-> Ratio(num, den), out |-> <<>>]

\* One call of blend_colors.
BlendCall ==
    /\ bl.out = <<>>
    /\ bl.color1 # <<>>
    /\ bl' = [bl EXCEPT !.out = blend_colors(bl.color1, bl.color2, bl.ratio)]
    /\ UNCHANGED <<dt, gr, geo, call, batchVars>>

NextBlend == BlendCall

SpecBlend == InitBlend /\ [][NextBlend]_vars

\* ------------------------------- generate_gradient_background on its own
InitGradient ==
    /\ BatchIdle
    /\ call = NoCall
    /\ geo = NoGeometric
    /\ dt = NoDetect
    /\ bl = NoBlend
    /\ \E width \in 1..MaxDim, height \in 1..MaxDim, theme \in Themes :
         gr = [width |-> width, height |-> height,
               colors |-> SubSeq(color_themes[theme], 1, 2),
               gradient_type |-> "none", out |-> [status |-> "ready"]]

\* One call of generate_gradient_background; random.choice draws the kind.
GradientCall ==
    /\ gr.out.status = "ready"
    /\ gr.width > 0
    /\ \E gradient_type \in GradientTypes :
         gr' = [gr EXCEPT !.gradient_type = gradient_type,
                          !.out = generate_gradient_background(
                                      gr.width, gr.height, gr.colors,
                                      gradient_type)]
    /\ UNCHANGED <<dt, bl, geo, call, batchVars>>

NextGradient == GradientCall

SpecGradient == InitGradient /\ [][NextGradient]_vars

\* ------------------------------------- add_geometric_patterns on its own
\* The call generate_image makes for style 'geometric': an image filled
\* with colors[0], and colors[1:] as the color pool.
InitGeometric ==
    /\ BatchIdle
    /\ call = NoCall
    /\ dt = NoDetect
    /\ bl = NoBlend
    /\ gr = NoGradient
    /\ \E theme \in Themes :
         geo = [pc |-> "ready", colors |-> Tail(color_themes[theme]),
                pattern_type |-> "none", num_shapes |-> 0, i |-> 0,
                image |-> NewImage("RGB", HexToRGB(color_themes[theme][1])),
                from_pool |-> TRUE]

\* pattern_type = random.choice([...]); num_shapes = random.randint(5, 15)
GeometricBegin ==
    /\ geo.pc = "ready"
    /\ \E pattern_type \in PatternTypes, num_shapes \in MinShapes..MaxShapes :
         geo' = [geo EXCEPT !.pc = "loop", !.pattern_type = pattern_type,
                            !.num_shapes = num_shapes]
    /\ UNCHANGED <<dt, bl, gr, call, batchVars>>

\* One iteration of the loop: draw color and alpha, draw on the overlay,
\* composite the overlay onto the image. from_pool records whether every
\* shape drawn so far took its color from the pool and its alpha from the
\* range.
GeometricShape ==
    /\ geo.pc = "loop"
    /\ geo.i < geo.num_shapes
    /\ \E c \in 1..Len(geo.colors), alpha \in AlphaSamples :
         LET overlay == OverlayShapes(geo.pattern_type, geo.colors[c], alpha)
         IN geo' = [geo EXCEPT
                      !.i = geo.i + 1,
                      !.image = CompositeOver(geo.image, overlay),
                      !.from_pool = geo.from_pool
                                    /\ ShapesFromPool(overlay, geo.colors)]
    /\ UNCHANGED <<dt, bl, gr, call, batchVars>>

\* return image
GeometricReturn ==
    /\ geo.pc = "loop"
    /\ geo.i = geo.num_shapes
    /\ geo' = [geo EXCEPT !.pc = "returned"]
    /\ UNCHANGED <<dt, bl, gr, call, batchVars>>

NextGeometric == GeometricBegin \/ GeometricShape \/ GeometricReturn

SpecGeometric == InitGeometric /\ [][NextGeometric]_vars

\* ------------------------------------------------- generate_image on its own
Sp == " "

\* Prompts: empty, whitespace only, with keywords of two themes, padded
\* with whitespace, and without any keyword.
EmptyPrompt == <<>>
BlankPrompt == <<Sp, Sp, Sp>>
OceanSunset == <<"O","c","e","a","n",Sp,"s","u","n","s","e","t">>
PaddedForest == <<Sp,"M","y","s","t","i","c","a","l",Sp,
                  "f","o","r","e","s","t","\n">>
PlainPrompt == <<"p","l","a","i","n">>

PromptPool == {EmptyPrompt, BlankPrompt, <<"\t", Sp>>, OceanSunset,
               PaddedForest, PlainPrompt}

\* Values of the style argument: the four documented ones and one that is
\* none of them.
StyleArgs == {"auto", "gradient", "abstract", "geometric", "sketch"}

InitGenerate ==
    /\ BatchIdle
    /\ dt = NoDetect
    /\ bl = NoBlend
    /\ gr = NoGradient
    /\ geo = NoGeometric
    /\ \E prompt \in PromptPool, style \in StyleArgs :
         call = [prompt |-> prompt, style |-> style, out |-> [status |-> "idle"]]

\* One call generator.generate_image(prompt, style=style).
GenerateImageCall ==
    /\ call.out.status = "idle"
    /\ call # NoCall
    /\ \E now \in clock..MaxClock :
         /\ now <= clock + 1
         /\ clock' = now
         /\ \E out \in generate_image(call.prompt, call.style, now) :
              /\ call' = [call EXCEPT
                            !.out = [status |-> "returned"] @@ out]
              /\ files' = files \cup out.saved
    /\ UNCHANGED <<dt, bl, gr, geo, prompts, kwargs, results, pc, tally, genlog>>

NextGenerate == GenerateImageCall

SpecGenerate == InitGenerate /\ [][NextGenerate]_vars

\* ----------------------------------------------------------- batch_generate
BatchPool == {EmptyPrompt, BlankPrompt, OceanSunset, PlainPrompt}

\* The generator is constructed and batch_generate(prompts, style=...) is
\* about to be called.
Init ==
    /\ dt = NoDetect
    /\ bl = NoBlend
    /\ gr = NoGradient
    /\ geo = NoGeometric
    /\ call = NoCall
    /\ \E n \in 0..MaxPrompts : prompts \in [1..n -> BatchPool]
    /\ kwargs \in [style : StyleArgs]
    /\ results = <<>>
    /\ pc = "idle"
    /\ tally = <<0, 0>>
    /\ genlog = <<>>
    /\ clock = 0
    /\ files = {}

\* results = []; total = len(prompts)
BatchBegin ==
    /\ pc = "idle"
    /\ pc' = "loop"
    /\ results' = <<>>
    /\ UNCHANGED <<dt, bl, gr, geo, call, prompts, kwargs, tally, genlog,
                   clock, files>>

\* What batch_generate sees of a generate_image call.
Seen(out) ==
    [result |-> out.result, saved |-> out.saved, propagated |-> out.propagated]

\* One iteration of the loop: result = self.generate_image(prompt, **kwargs);
\* results.append(result). An exception leaving generate_image would leave
\* batch_generate too. The clock may pass into the next second meanwhile.
BatchIteration ==
    /\ pc = "loop"
    /\ Len(results) < Len(prompts)
    /\ LET prompt == prompts[Len(results) + 1]
       IN \E now \in clock..MaxClock :
            /\ now <= clock + 1
            /\ clock' = now
            /\ \E out \in {Seen(o) : o \in generate_image(prompt, kwargs.style, now)} :
                 /\ genlog' = Append(genlog, [prompt |-> prompt,
                                              result |-> out.result])
                 /\ files' = files \cup out.saved
                 /\ IF out.propagated # "none"
                    THEN pc' = "aborted" /\ results' = results
                    ELSE pc' = pc /\ results' = Append(results, out.result)
    /\ UNCHANGED <<dt, bl, gr, geo, call, prompts, kwargs, tally>>

\* After the loop: the tally is printed and results returned.
BatchFinish ==
    /\ pc = "loop"
    /\ Len(results) = Len(prompts)
    /\ tally' = <<Successful(results), Len(prompts)>>
    /\ pc' = "done"
    /\ UNCHANGED <<dt, bl, gr, geo, call, prompts, kwargs, results, genlog,
                   clock, files>>

Next == BatchBegin \/ BatchIteration \/ BatchFinish

Spec == Init /\ [][Next]_vars

\* ------------------------------------------------------------------ claims
\* A prompt that is empty or made of whitespace only.
BlankInput(prompt) == \A i \in 1..Len(prompt) : prompt[i] \in Whitespace

\* C1: batch_generate calls generate_image once per prompt in input order
\* and is never cut short; results[i] is what the call on prompts[i]
\* returned (None for an empty or whitespace-only prompt); on return there
\* is one result per prompt and the tally is the number of results that are
\* not None out of the number of prompts.
C1_BatchOneResultPerPromptAndTally ==
    /\ pc # "aborted"
    /\ Len(genlog) = Len(results)
    /\ Len(results) <= Len(prompts)
    /\ \A i \in 1..Len(results) :
         /\ genlog[i].prompt = prompts[i]
         /\ results[i] = genlog[i].result
         /\ BlankInput(prompts[i]) => results[i] = None
    /\ pc = "done" =>
         /\ Len(results) = Len(prompts)
         /\ tally[2] = Len(prompts)
         /\ tally[1] = Len(SelectSeq(results, LAMBDA r : r # None))

\* C1 witness: a finished batch of three prompts whose second result is
\* None and whose first and third are file paths, tallied 2/3.
C1_Witness ==
    /\ pc = "done"
    /\ Len(prompts) = 3
    /\ BlankInput(prompts[2])
    /\ results[1] # None /\ results[2] = None /\ results[3] # None
    /\ tally = <<2, 3>>

\* C2: generate_image on an empty or whitespace-only prompt returns None
\* before anything else runs: no theme, no style, no stage call, no file.
C2_EmptyPromptFailsFast ==
    (call.out.status = "returned" /\ BlankInput(call.prompt)) =>
        /\ call.out.result = None
        /\ call.out.theme = "none"
        /\ call.out.style = "none"
        /\ call.out.calls = <<>>
        /\ call.out.saved = {}
        /\ files = {}

\* C2 witness: a call on a non-empty prompt of whitespace has returned.
C2_Witness ==
    /\ call.out.status = "returned"
    /\ call.prompt # <<>>
    /\ BlankInput(call.prompt)
    /\ call.out.result = None

\* The position of a theme in catalog order.
ThemeIndex(theme) == CHOOSE i \in 1..Len(ThemeOrder) : ThemeOrder[i] = theme

\* C3 (as claimed): a prompt built only from keywords of theme T, in any
\* letter case, is detected as T.
C3_OnlyOwnKeywordsDetectOwnTheme ==
    (dt.theme # "none" /\ dt.from \in Themes) => dt.theme = dt.from

\* The match count of every theme for one prompt.
MatchCounts(prompt) ==
    LET prompt_lower == StrLower(prompt)
    IN [t \in Themes |->
          Cardinality({i \in 1..Len(theme_keywords[t]) :
                         Contains(prompt_lower, theme_keywords[t][i])})]

\* C4: when some keyword occurs in the lowercased prompt, detect_theme
\* returns a theme with the maximal match count, and of the themes with that
\* count the first in catalog order, whatever the random source would draw.
C4_MaxCountFirstInCatalogOrder ==
    dt.theme # "none" =>
        LET count == MatchCounts(dt.prompt)
        IN (\E t \in Themes : count[t] > 0) =>
             /\ \A t \in Themes : count[t] <= count[dt.theme]
             /\ \A j \in 1..(ThemeIndex(dt.theme) - 1) :
                  count[ThemeOrder[j]] < count[dt.theme]

\* C4 witness: two themes tie at the maximum and the earlier one was returned.
C4_Witness ==
    /\ dt.theme # "none"
    /\ LET count == MatchCounts(dt.prompt)
       IN /\ count[dt.theme] > 0
          /\ \E t \in Themes : /\ ThemeIndex(t) > ThemeIndex(dt.theme)
                               /\ count[t] = count[dt.theme]
          /\ \A t \in Themes : count[t] <= count[dt.theme]

\* The generator call the claim expects for a style and a palette.
ExpectedGenerator(style, palette) ==
    CASE style = "gradient" ->
           [stage |-> "generate_gradient_background", image |-> <<>>,
            background |-> <<>>, colors |-> <<palette[1], palette[2]>>]
      [] style = "abstract" ->
           [stage |-> "create_abstract_art", image |-> <<>>,
            background |-> <<>>, colors |-> palette]
      [] style = "geometric" ->
           [stage |-> "add_geometric_patterns", image |-> <<"Image.new">>,
            background |-> palette[1],
            colors |-> <<palette[2], palette[3], palette[4], palette[5]>>]
      [] OTHER -> [stage |-> "none"]

\* C5: a successful generate_image call made exactly four stage calls: the
\* generator of the resolved style with its palette arguments, the text
\* overlay on the generator's output, the effect on the text overlay's
\* output, and the save of the effect's output.
C5_GeneratorThenTextThenEffectThenSave ==
    (call.out.status = "returned" /\ call.out.result # None) =>
        LET calls == call.out.calls
            gen == ExpectedGenerator(call.out.style,
                                     color_themes[call.out.theme])
        IN /\ Len(calls) = 4
           /\ calls[1] = gen
           /\ calls[2].stage = "add_text_overlay"
           /\ calls[2].image = <<gen.stage>>
           /\ calls[3].stage = "apply_artistic_effects"
           /\ calls[3].image = <<gen.stage, "add_text_overlay">>
           /\ calls[4].stage = "save"
           /\ calls[4].image = <<gen.stage, "add_text_overlay",
                                 "apply_artistic_effects">>
           /\ call.out.saved = {call.out.result}

\* C5 witness: a successful call with the geometric style.
C5_Witness ==
    /\ call.out.status = "returned"
    /\ call.out.result # None
    /\ call.out.style = "geometric"

\* C6: when a stage or the save raises on a non-empty prompt, the call
\* returns None (no file path is reported), the raising call is the last
\* one made, and no exception reaches the caller.
C6_StageFailureReturnsNone ==
    (call.out.status = "returned" /\ call.out.exception # "none") =>
        /\ ~BlankInput(call.prompt)
        /\ call.out.result = None
        /\ call.out.propagated = "none"
        /\ Len(call.out.calls) <= 4
        /\ IF call.out.raised_in = "image"
           THEN call.out.calls = <<>>
           ELSE /\ call.out.calls # <<>>
                /\ call.out.calls[Len(call.out.calls)].stage = call.out.raised_in
                /\ \A k \in 1..(Len(call.out.calls) - 1) :
                     call.out.calls[k].stage # call.out.raised_in

\* C6 witness: the effect stage raised after generator and text overlay ran.
C6_Witness ==
    /\ call.out.status = "returned"
    /\ call.out.exception = "Exception"
    /\ Len(call.out.calls) = 3
    /\ call.out.calls[3].stage = "apply_artistic_effects"
    /\ call.out.result = None

\* C7: a successful call reports, in the file name and the result, one of
\* the three concrete styles; it was called with one of the four documented
\* styles, and with a concrete style it reports that style.
C7_ReportedStyleIsConcrete ==
    (call.out.status = "returned" /\ call.out.result # None) =>
        /\ call.out.style \in {"gradient", "abstract", "geometric"}
        /\ call.out.result[2] = call.out.style
        /\ call.style \in {"gradient", "abstract", "geometric", "auto"}
        /\ call.style # "auto" => call.out.style = call.style
        /\ call.out.calls[1].stage =
             ExpectedGenerator(call.out.style, color_themes[call.out.theme]).stage

\* C7 witness: a call with style 'auto' succeeded.
C7_Witness ==
    /\ call.out.status = "returned"
    /\ call.style = "auto"
    /\ call.out.result # None
    /\ call.out.result[2] \in {"gradient", "abstract", "geometric"}

\* v lies between a and b, whichever of the two is larger.
BetweenChannels(v, a, b) ==
    (a <= b /\ a <= v /\ v <= b) \/ (b <= a /\ b <= v /\ v <= a)

\* C8: blend_colors at ratio 0 is color1, at ratio 1 is color2, and every
\* channel of the result lies between the channels of the two colors.
C8_BlendEndpointsAndBetween ==
    bl.out # <<>> =>
        LET rgb1 == HexToRGB(bl.color1)
            rgb2 == HexToRGB(bl.color2)
        IN /\ bl.ratio.num = 0 => bl.out = rgb1
           /\ bl.ratio.num = bl.ratio.den => bl.out = rgb2
           /\ \A ch \in 1..3 : BetweenChannels(bl.out[ch], rgb1[ch], rgb2[ch])

\* C8 witness: a channel of color2 is below that of color1 and the
\* interpolated value is not an integer, so it was truncated.
C8_Witness ==
    /\ bl.out # <<>>
    /\ \E ch \in 1..3 :
         LET c1 == HexToRGB(bl.color1)[ch]
             c2 == HexToRGB(bl.color2)[ch]
         IN /\ c2 < c1
            /\ ((c2 - c1) * bl.ratio.num) % bl.ratio.den # 0
            /\ bl.out[ch] < c1 /\ bl.out[ch] > c2

\* A ratio that is defined and lies in [0,1].
RatioInUnitInterval(ratio) ==
    /\ ratio.den > 0
    /\ 0 <= ratio.num
    /\ ratio.num <= ratio.den

\* C9 (as claimed): for positive width and height and each gradient kind,
\* every pixel's ratio is defined and in [0,1], and the call returns an
\* image instead of raising.
C9_GradientNeverFailsOnPositiveDims ==
    gr.out.status # "ready" =>
        /\ gr.out.status = "returned"
        /\ \A p \in DOMAIN gr.out.ratios : RatioInUnitInterval(gr.out.ratios[p])

\* C10 (as claimed): whichever pattern kind is drawn, the call puts between
\* 5 and 15 shapes on the image, one per composite, each with a pool color
\* and an alpha in [50,150], and returns an RGB image.
C10_GeometricDrawsFiveToFifteenShapes ==
    geo.pc = "returned" =>
        /\ geo.image.shapes >= MinShapes
        /\ geo.image.shapes <= MaxShapes
        /\ geo.image.shapes = geo.num_shapes
        /\ geo.from_pool
        /\ geo.image.mode = "RGB"

\* C11 (as claimed): within one batch_generate run every successful
\* generation is saved to a path distinct from the paths of all earlier
\* successful ones, so the distinct non-None results (and the files
\* written) are as many as the successes.
C11_SuccessfulPathsAreDistinct ==
    /\ \A i \in 1..Len(results) : \A j \in 1..Len(results) :
         (i < j /\ results[i] # None /\ results[j] # None)
             => results[i] # results[j]
    /\ pc = "done" =>
         /\ Cardinality({results[i] : i \in 1..Len(results)} \ {None}) = tally[1]
         /\ Cardinality(files) = tally[1]

====
